---- MODULE Spec2Model ----
(***************************************************************************)
(* HSV Range Finder (src/main.py): the controller HSVRangeFinder as a      *)
(* state machine.  One action per Tk callback (slider command, entry       *)
(* <Return>/<FocusOut>, Load Image, toggle, copy buttons, timer callbacks),*)
(* plus the user typing into an entry.  Texts are sequences of one-        *)
(* character strings, images are records of BGR pixels, time is counted in *)
(* milliseconds relative to "now" (each pending timer carries the time     *)
(* left until it is due).                                                  *)
(***************************************************************************)
EXTENDS Integers, Sequences, FiniteSets, TLC

(***************************************************************************)
(* Config (src/main.py 13-49)                                              *)
(***************************************************************************)
UPDATE_INTERVAL == 50
DEBOUNCE_DELAY == 150
HSV_HUE_MAX == 179
HSV_SAT_VAL_MAX == 255
HSV_HUE_MIN == 0
HSV_SAT_VAL_MIN == 0

\* The six DoubleVar attributes, in the order of DEFAULT_LOWER_HSV / DEFAULT_UPPER_HSV.
Params == {"l_h", "l_s", "l_v", "u_h", "u_s", "u_v"}

IsHue(p) == p \in {"l_h", "u_h"}

DEFAULT_LOWER_HSV == <<0, 0, 0>>
DEFAULT_UPPER_HSV == <<HSV_HUE_MAX, HSV_SAT_VAL_MAX, HSV_SAT_VAL_MAX>>

\* Index of a parameter's channel (h, s, v) in a bound triple.
Chan(p) == IF p \in {"l_h", "u_h"} THEN 1 ELSE IF p \in {"l_s", "u_s"} THEN 2 ELSE 3

\* _initialize_hsv_values: the value each DoubleVar is set to.
DefaultValue(p) ==
  IF p \in {"l_h", "l_s", "l_v"} THEN DEFAULT_LOWER_HSV[Chan(p)] ELSE DEFAULT_UPPER_HSV[Chan(p)]

\* A slip: every Scale given the saturation/value maximum.
SliderTo_Wide(p) == HSV_SAT_VAL_MAX

\* _create_sliders: from_ and to of each Scale (the slider_configs rows and
\* the from_ expression of _create_hsv_slider_row).
SliderFrom(p) == IF IsHue(p) THEN HSV_HUE_MIN ELSE HSV_SAT_VAL_MIN
SliderTo(p) == IF IsHue(p) THEN HSV_HUE_MAX ELSE HSV_SAT_VAL_MAX

\* A slip: the hue handlers given the saturation/value maximum.
EntryMax_Wide(p) == HSV_SAT_VAL_MAX

\* The min_val / max_val arguments the six *_entry_changed handlers pass to
\* _validate_and_update.
EntryMin(p) == 0
EntryMax(p) == IF IsHue(p) THEN HSV_HUE_MAX ELSE HSV_SAT_VAL_MAX

(***************************************************************************)
(* Bounds of the model                                                     *)
(***************************************************************************)
\* User inputs (typing, slider moves, confirms, loads, toggles, copies) per run.
MaxEvents == 2
\* Callbacks one widget event may set off, one after the other, before the
\* toolkit is taken to loop for ever.
MaxDispatch == 3

(***************************************************************************)
(* Texts: str(int) and int(str)                                            *)
(***************************************************************************)
Digits == <<"0", "1", "2", "3", "4", "5", "6", "7", "8", "9">>

IsDigit(c) == \E i \in 1..10 : Digits[i] = c
DigitOf(c) == (CHOOSE i \in 1..10 : Digits[i] = c) - 1

RECURSIVE StrNat(_)
StrNat(n) == IF n < 10 THEN <<Digits[n + 1]>> ELSE StrNat(n \div 10) \o <<Digits[(n % 10) + 1]>>

\* str(value) of a Python int.
Str(n) == IF n < 0 THEN <<"-">> \o StrNat(-n) ELSE StrNat(n)

RECURSIVE NatOf(_)
NatOf(s) == IF s = <<>> THEN 0 ELSE 10 * NatOf(SubSeq(s, 1, Len(s) - 1)) + DigitOf(s[Len(s)])

RECURSIVE Strip(_)
Strip(s) ==
  IF s = <<>> THEN s
  ELSE IF s[1] = " " THEN Strip(Tail(s))
  ELSE IF s[Len(s)] = " " THEN Strip(SubSeq(s, 1, Len(s) - 1))
  ELSE s

\* int(text): surrounding blanks are dropped, one sign is allowed, the rest
\* must be one or more decimal digits; anything else raises ValueError.
ParseInt(text) ==
  LET s == Strip(text)
      signed == s # <<>> /\ s[1] \in {"-", "+"}
      body == IF signed THEN Tail(s) ELSE s
      good == body # <<>> /\ \A i \in 1..Len(body) : IsDigit(body[i])
  IN  IF ~good THEN [ok |-> FALSE, val |-> 0]
      ELSE [ok |-> TRUE, val |-> IF signed /\ s[1] = "-" THEN -NatOf(body) ELSE NatOf(body)]

\* A slip: one decimal place ('{:.1f}').
Format0f_OneDecimal(x) == Str(x) \o <<".", "0">>

\* '{:.0f}'.format(x) for the integral floats a DoubleVar of this program holds.
Format0f(x) == Str(x)

(***************************************************************************)
(* Threshold Engine: the cv2 calls of _process_image_safely on 8-bit BGR   *)
(* buffers.  A pixel is <<b, g, r>>; an image is [h, w, px] with px the    *)
(* h*w pixels row by row.                                                  *)
(***************************************************************************)
Max2(a, b) == IF a >= b THEN a ELSE b
Min2(a, b) == IF a <= b THEN a ELSE b

\* Rounded quotient of two positive integers.
RoundDiv(n, d) == (2 * n + d) \div (2 * d)

\* cv2.cvtColor(image, cv2.COLOR_BGR2HSV) on one 8-bit pixel: the fixed-point
\* form with hue range 180 (shift 12, the two division tables).
BGR2HSV(p) ==
  LET b == p[1]
      g == p[2]
      r == p[3]
      v == Max2(b, Max2(g, r))
      vmin == Min2(b, Min2(g, r))
      diff == v - vmin
      sdiv == IF v = 0 THEN 0 ELSE RoundDiv(255 * 4096, v)
      hdiv == IF diff = 0 THEN 0 ELSE RoundDiv(180 * 4096, 6 * diff)
      s == (diff * sdiv + 2048) \div 4096
      h0 == IF v = r THEN g - b ELSE IF v = g THEN b - r + 2 * diff ELSE r - g + 4 * diff
      h1 == (h0 * hdiv + 2048) \div 4096
      h == IF h1 < 0 THEN h1 + 180 ELSE h1
  IN  <<h, s, v>>

\* A slip: the bounds taken as exclusive.
InRange_Exclusive(q, lower, upper) ==
  IF \A c \in 1..3 : lower[c] < q[c] /\ q[c] < upper[c] THEN 255 ELSE 0

\* cv2.inRange(hsv, lower_bound, upper_bound) on one pixel: 255 or 0.
InRange(q, lower, upper) ==
  IF \A c \in 1..3 : lower[c] <= q[c] /\ q[c] <= upper[c] THEN 255 ELSE 0

\* cv2.bitwise_and(image, image, mask=mask) on one pixel.
BitwiseAnd(p, m) == IF m # 0 THEN p ELSE <<0, 0, 0>>

\* cv2.cvtColor(filtered_frame, cv2.COLOR_BGR2GRAY) on one 8-bit pixel.
BGR2GRAY(p) == (p[1] * 3735 + p[2] * 19235 + p[3] * 9798 + 16384) \div 32768

\* A slip: maxval 1 in place of 255.
Threshold_MaxOne(y) == IF y > 0 THEN 1 ELSE 0

\* cv2.threshold(gray, 0, 255, cv2.THRESH_BINARY) on one pixel.
Threshold(y) == IF y > 0 THEN 255 ELSE 0

HSVImage(image) == [image EXCEPT !.px = [i \in 1..Len(image.px) |-> BGR2HSV(image.px[i])]]

Mask(hsv, lower, upper) ==
  [i \in 1..Len(hsv.px) |-> InRange(hsv.px[i], lower, upper)]

Filtered(image, mask) ==
  [image EXCEPT !.px = [i \in 1..Len(image.px) |-> BitwiseAnd(image.px[i], mask[i])]]

Binary(filtered) ==
  [h |-> filtered.h, w |-> filtered.w,
   px |-> [i \in 1..Len(filtered.px) |-> Threshold(BGR2GRAY(filtered.px[i]))]]

\* Lines 530-538 of _process_image_safely: the tuple (image, filtered_frame, binary).
ProcessedImages(image, hsv, lower, upper) ==
  LET filtered_frame == Filtered(image, Mask(hsv, lower, upper))
  IN  <<image, filtered_frame, Binary(filtered_frame)>>

\* What the engine yields for an image and two bounds, from scratch.
Engine(image, lower, upper) == ProcessedImages(image, HSVImage(image), lower, upper)

(***************************************************************************)
(* Inputs                                                                  *)
(***************************************************************************)
Red == <<0, 0, 255>>
Green == <<0, 255, 0>>
Blue == <<255, 0, 0>>
White == <<255, 255, 255>>
Black == <<0, 0, 0>>
Dim == <<1, 0, 0>>

\* What cv2.imread can return for the files the user picks: a 2x2 colour
\* chart and a 1x2 dark strip.
ImageA == [h |-> 2, w |-> 2, px |-> <<Red, Green, Blue, White>>]
ImageB == [h |-> 1, w |-> 2, px |-> <<Black, Dim>>]
Images == {ImageA, ImageB}

\* Positions the user drags a slider to (a Scale keeps them in from_..to).
SliderPositions(p) == {100, SliderTo(p)} \cap (SliderFrom(p)..SliderTo(p))

\* Texts the user types into an entry: not a number, below the range, a
\* value in range written with and without a leading zero, above the hue
\* range only, above every range.
EntryTexts ==
  { <<"x">>, <<"-", "1">>, <<"7">>, <<"0", "7">>, <<"1", "8", "0">>, <<"2", "5", "6">> }

(***************************************************************************)
(* State                                                                   *)
(***************************************************************************)
VARIABLES
  loaded_image,             \* self.loaded_image (NoImage for None)
  hsv_changed,              \* self.hsv_changed, the dirty flag
  show_binary,              \* self.show_binary
  cached_hsv_image,         \* self._cached_hsv_image (NoImage for None)
  last_processed_bounds,    \* self._last_processed_bounds (<<>> for None)
  cached_processed_images,  \* self._cached_processed_images (<<>> for None)
  debounce_timer,           \* self._debounce_timer: an after-id (0 for None)
  timers,                   \* Tk's timer queue: [id, cb, left], earliest first
  var,                      \* the six DoubleVar values
  entry,                    \* text of the six Entry widgets
  show,                     \* text of the six result Labels (lhShow .. uvShow)
  frameText,                \* resultCameraFrame's title
  toggleText,               \* toggleBtn's text
  vidLabel1,                \* image shown in the left pane (NoImage for '')
  vidLabel2,                \* image shown in the right pane
  clipboard,                \* what pyperclip.copy last received
  dialog,                   \* titles of the message boxes the latest callback raised
  log,                      \* lines the latest callback printed
  events,                   \* number of user inputs so far
  ev,                       \* the latest callback: what ran and what it did
  last,                     \* the latest request to _process_image_safely
  quiet,                    \* milliseconds since self._last_hsv_change_time
  filedialog_global,        \* whether the module's globals bind the name filedialog
  build,                    \* construction: phase, the steps still to run, the DoubleVars made
  changes,                  \* whether a parameter change has happened
  coalesced                 \* _debounced_update passes since the current burst began

vars ==
  << loaded_image, hsv_changed, show_binary, cached_hsv_image, last_processed_bounds,
     cached_processed_images, debounce_timer, timers, var, entry, show, frameText,
     toggleText, vidLabel1, vidLabel2, clipboard, dialog, log, events, ev, last, quiet,
     filedialog_global, build, changes, coalesced >>

NoImage == [h |-> 0, w |-> 0, px |-> <<>>]
NoTimer == 0

\* The time since the latest parameter change is counted up to here; a
\* longer time is kept as QuietCap or QuietCap + UPDATE_INTERVAL, in turn.
QuietCap == DEBOUNCE_DELAY + UPDATE_INTERVAL

Later(q, d) == IF q + d > QuietCap + UPDATE_INTERVAL THEN QuietCap ELSE q + d

\* Construction is over: every step has run and the six DoubleVars exist.
Built == [phase |-> "running", todo |-> <<>>, attrs |-> Params]

NoRequest ==
  [outcome |-> "none", image |-> NoImage, lower |-> <<>>, upper |-> <<>>,
   result |-> <<>>, byLoad |-> FALSE, repeat |-> FALSE]

NoEvent ==
  [kind |-> "none", p |-> "", runs |-> 0, marks |-> 0, passes |-> 0, hadEntry |-> FALSE,
   file |-> NoImage]

(***************************************************************************)
(* Tk timers: window.after and window.after_cancel                         *)
(***************************************************************************)
TimerIds == {timers[i].id : i \in 1..Len(timers)}

\* The id "after#n" that after() returns is new: no pending timer and no
\* attribute of the controller holds it.
FreshId(q, held) ==
  CHOOSE n \in 1..(Len(q) + 2) : n # held /\ \A i \in 1..Len(q) : q[i].id # n

\* after(ms, cb): Tk keeps the queue ordered by due time and puts a new
\* timer behind those due at the same time.
After(q, id, ms, cb) ==
  LET k == Cardinality({i \in 1..Len(q) : q[i].left <= ms})
  IN  SubSeq(q, 1, k) \o <<[id |-> id, cb |-> cb, left |-> ms]>> \o SubSeq(q, k + 1, Len(q))

RECURSIVE AfterCancel(_, _)
\* after_cancel(id): the timer is dropped if it is still pending.
AfterCancel(q, id) ==
  IF q = <<>> THEN q
  ELSE IF Head(q).id = id THEN Tail(q)
  ELSE <<Head(q)>> \o AfterCancel(Tail(q), id)

\* The queue once d milliseconds have passed.
Elapse(q, d) == [i \in 1..Len(q) |-> [q[i] EXCEPT !.left = q[i].left - d]]

(***************************************************************************)
(* Processing: process_and_display_image and what it calls                 *)
(***************************************************************************)
\* Calls of the engine that may raise while a request is processed.
Faults == {"none", "BGR2HSV", "inRange"}

LowerOf(v) == <<v["l_h"], v["l_s"], v["l_v"]>>
UpperOf(v) == <<v["u_h"], v["u_s"], v["u_v"]>>

\* A slip: a lower bound above its upper bound returns None as well.
GetValidatedHSVBounds_Rejecting(v) ==
  LET lower_bound == <<v["l_h"], v["l_s"], v["l_v"]>>
      upper_bound == <<v["u_h"], v["u_s"], v["u_v"]>>
  IN  IF \E c \in 1..3 : lower_bound[c] < 0 \/ upper_bound[c] < 0
      THEN [bounds |-> <<>>, printed |-> <<"negative">>]
      ELSE IF \E c \in 1..3 : lower_bound[c] > upper_bound[c]
      THEN [bounds |-> <<>>, printed |-> <<"lower>upper">>]
      ELSE [bounds |-> <<lower_bound, upper_bound>>, printed |-> <<>>]

\* _get_validated_hsv_bounds: None (<<>>) when a bound is negative; a lower
\* bound above its upper bound only prints a warning.
GetValidatedHSVBounds(v) ==
  LET lower_bound == LowerOf(v)
      upper_bound == UpperOf(v)
  IN  IF \E c \in 1..3 : lower_bound[c] < 0 \/ upper_bound[c] < 0
      THEN [bounds |-> <<>>, printed |-> <<"negative">>]
      ELSE [bounds |-> <<lower_bound, upper_bound>>,
            printed |-> IF \E c \in 1..3 : lower_bound[c] > upper_bound[c]
                        THEN <<"lower>upper">> ELSE <<>>]

\* A slip: the cache is never used.
CanUseCachedResults_Never(cpi, lpb, lower_bound, upper_bound) == FALSE

\* A slip: the bounds of the entry are not compared.
CanUseCachedResults_AnyBounds(cpi, lpb, lower_bound, upper_bound) ==
  ~(cpi = <<>> \/ lpb = <<>>)

\* _can_use_cached_results
CanUseCachedResults(cpi, lpb, lower_bound, upper_bound) ==
  IF cpi = <<>> \/ lpb = <<>> THEN FALSE
  ELSE lower_bound = lpb[1] /\ upper_bound = lpb[2]

\* _is_same_image
IsSameImage(image, loaded, chsv) ==
  IF loaded = NoImage \/ chsv = NoImage THEN FALSE
  ELSE image.h = loaded.h /\ image.w = loaded.w /\ image = loaded

\* A slip: nothing is cleared.
InvalidateCache_Nothing(c) == c

\* A slip: the cached HSV image is left in place.
InvalidateCache_KeepsHsv(c) == [c EXCEPT !.cpi = <<>>, !.lpb = <<>>]

\* _invalidate_cache
InvalidateCache(c) == [c EXCEPT !.chsv = NoImage, !.cpi = <<>>, !.lpb = <<>>]

\* A slip: the handler drops the cache entry.
Failed_Clearing(c) ==
  [cache |-> [c EXCEPT !.cpi = <<>>, !.lpb = <<>>], ret |-> <<>>, outcome |-> "failed",
   printed |-> <<"processing">>]

\* The except branch of _process_image_safely, reached with the cache as the
\* statements before the raise left it: it prints and returns None.
Failed(c) == [cache |-> c, ret |-> <<>>, outcome |-> "failed", printed |-> <<"processing">>]

\* _process_image_safely on the cache c = [chsv, lpb, cpi]: the cache after
\* the call, what is returned (<<>> for None) and whether the engine ran.
ProcessImageSafely(c, loaded, image, lower_bound, upper_bound, fault) ==
  IF CanUseCachedResults(c.cpi, c.lpb, lower_bound, upper_bound)
  THEN [cache |-> c, ret |-> c.cpi, outcome |-> "hit", printed |-> <<>>]
  ELSE
    LET convert == c.chsv = NoImage \/ ~IsSameImage(image, loaded, c.chsv)
        hsv == IF convert THEN HSVImage(image) ELSE c.chsv
        c1 == [c EXCEPT !.chsv = hsv]
        processed_images == ProcessedImages(image, hsv, lower_bound, upper_bound)
    IN  IF convert /\ fault = "BGR2HSV"
        THEN Failed(c)
        ELSE IF fault = "inRange"
        THEN Failed(c1)
        ELSE [cache |-> [c1 EXCEPT !.cpi = processed_images,
                                   !.lpb = <<lower_bound, upper_bound>>],
              ret |-> processed_images, outcome |-> "computed", printed |-> <<>>]

\* _display_image_in_label: cv2.COLOR_BGR2RGB for a colour buffer,
\* cv2.COLOR_GRAY2RGB for a single-channel one; the PhotoImage the label
\* then holds.  (Resizing to the frame is the image library's.)
DisplayImageInLabel(image, is_bgr) ==
  [h |-> image.h, w |-> image.w,
   px |-> [i \in 1..Len(image.px) |->
             IF is_bgr THEN <<image.px[i][3], image.px[i][2], image.px[i][1]>>
             ELSE <<image.px[i], image.px[i], image.px[i]>>]]

\* A slip: the right pane shows the filtered image whatever the toggle says.
DisplayImagesSafely_Filtered(processed, sb) ==
  [p1 |-> DisplayImageInLabel(processed[1], TRUE),
   p2 |-> DisplayImageInLabel(processed[2], TRUE)]

\* _display_images_safely: the two panes.
DisplayImagesSafely(processed, sb) ==
  [p1 |-> DisplayImageInLabel(processed[1], TRUE),
   p2 |-> IF sb THEN DisplayImageInLabel(processed[3], FALSE)
          ELSE DisplayImageInLabel(processed[2], TRUE)]

\* A slip: the panes are given the loaded image's picture, not cleared.
ClearImageDisplays_Placeholder(s) ==
  [s EXCEPT !.p1 = DisplayImageInLabel(ImageA, TRUE), !.p2 = DisplayImageInLabel(ImageA, TRUE)]

\* _clear_image_displays: config(image='') on both labels.
ClearImageDisplays(s) == [s EXCEPT !.p1 = NoImage, !.p2 = NoImage]

\* process_and_display_image on s = [img, sb, v, cache, p1, p2, last]; byLoad
\* says that load_image is the caller.
ProcessAndDisplayImage(s, byLoad, fault) ==
  IF s.img = NoImage
  THEN ClearImageDisplays(s) @@ [printed |-> <<>>]
  ELSE
    LET hsv_bounds == GetValidatedHSVBounds(s.v)
    IN  IF hsv_bounds.bounds = <<>> THEN s @@ [printed |-> hsv_bounds.printed]
        ELSE
          LET lower_bound == hsv_bounds.bounds[1]
              upper_bound == hsv_bounds.bounds[2]
              r == ProcessImageSafely(s.cache, s.img, s.img, lower_bound, upper_bound, fault)
              request ==
                [outcome |-> r.outcome, image |-> s.img, lower |-> lower_bound,
                 upper |-> upper_bound, result |-> r.ret, byLoad |-> byLoad,
                 repeat |-> /\ ~byLoad
                            /\ s.last.outcome \in {"hit", "computed"}
                            /\ s.last.image = s.img
                            /\ s.last.lower = lower_bound
                            /\ s.last.upper = upper_bound]
              shown == DisplayImagesSafely(r.ret, s.sb)
          IN  IF r.ret = <<>>
              THEN [s EXCEPT !.cache = r.cache, !.last = request]
                   @@ [printed |-> hsv_bounds.printed \o r.printed]
              ELSE [s EXCEPT !.cache = r.cache, !.last = request,
                             !.p1 = shown.p1, !.p2 = shown.p2]
                   @@ [printed |-> hsv_bounds.printed \o r.printed]

\* The controller's fields that processing reads and writes.
Proc ==
  [img |-> loaded_image, sb |-> show_binary, v |-> var,
   cache |-> [chsv |-> cached_hsv_image, lpb |-> last_processed_bounds,
              cpi |-> cached_processed_images],
   p1 |-> vidLabel1, p2 |-> vidLabel2, last |-> last]

\* The controller takes the fields of s.
Becomes(s) ==
  /\ loaded_image' = s.img
  /\ show_binary' = s.sb
  /\ cached_hsv_image' = s.cache.chsv
  /\ last_processed_bounds' = s.cache.lpb
  /\ cached_processed_images' = s.cache.cpi
  /\ vidLabel1' = s.p1
  /\ vidLabel2' = s.p2
  /\ last' = s.last

(***************************************************************************)
(* Widgets: the slider, entry and label of each parameter                  *)
(***************************************************************************)
\* The part of the state the change handlers work on, with the number of
\* handlers run and of _mark_hsv_changed calls while one event is handled.
Widgets ==
  [var |-> var, entry |-> entry, show |-> show, hsv_changed |-> hsv_changed,
   quiet |-> quiet, changes |-> changes, coalesced |-> coalesced, runs |-> 0, marks |-> 0]

\* _mark_hsv_changed: the flag and the time stamp.  A change that comes a
\* quiet period or more after the one before it begins a new burst.
MarkHsvChanged(ws) ==
  [ws EXCEPT !.hsv_changed = TRUE, !.quiet = 0, !.marks = @ + 1, !.changes = TRUE,
             !.coalesced = IF ~ws.changes \/ ws.quiet >= DEBOUNCE_DELAY THEN 0 ELSE @]

\* A slip: a number outside the range is clamped and stored.
ValidateAndUpdate_Clamping(ws, p) ==
  LET value == ParseInt(ws.entry[p])
      stored == Max2(EntryMin(p), Min2(EntryMax(p), value.val))
  IN  IF value.ok
      THEN [ws |-> MarkHsvChanged([ws EXCEPT !.var[p] = stored, !.show[p] = Str(stored)]),
            out |-> <<[kind |-> "write", p |-> p]>>]
      ELSE [ws |-> ws, out |-> <<>>]

\* _validate_and_update(entry_widget, variable, display_label, min_val, max_val)
\* with the arguments of the p handler.  variable.set writes the variable.
ValidateAndUpdate(ws, p) ==
  LET value == ParseInt(ws.entry[p])
  IN  IF value.ok /\ EntryMin(p) <= value.val /\ value.val <= EntryMax(p)
      THEN [ws |-> MarkHsvChanged([ws EXCEPT !.var[p] = value.val,
                                             !.show[p] = Str(value.val)]),
            out |-> <<[kind |-> "write", p |-> p]>>]
      ELSE [ws |-> ws, out |-> <<>>]

\* A slip: every row's label is rewritten, not the handler's own.
UpdateEntryFromSlider_AllRows(ws, p) ==
  LET value == ws.var[p]
  IN  [ws |-> MarkHsvChanged([ws EXCEPT !.show = [q \in Params |-> Str(ws.var[q])],
                                        !.entry[p] = Str(value)]),
       out |-> <<[kind |-> "edit", p |-> p]>>]

\* _update_entry_from_slider(entry_widget, variable, display_label) with the
\* arguments of the p handler.  entry.delete and entry.insert edit the text.
UpdateEntryFromSlider(ws, p) ==
  LET value == ws.var[p]
  IN  [ws |-> MarkHsvChanged([ws EXCEPT !.show[p] = Str(value), !.entry[p] = Str(value)]),
       out |-> <<[kind |-> "edit", p |-> p]>>]

\* A slip: the slider handler also installed as a trace on the variable.
Binding_Traced(kind) ==
  CASE kind \in {"command", "write"} -> "slider_cmd"
    [] kind \in {"Return", "FocusOut"} -> "entry_cmd"
    [] OTHER -> "none"

\* _create_hsv_slider_row: the callbacks it installs.  command=slider_cmd
\* runs when the user moves the slider; entry_cmd is bound to <Return> and
\* <FocusOut>.  Nothing is bound to a write of the variable or to an edit of
\* the entry's text.
Binding(kind) ==
  CASE kind = "command" -> "slider_cmd"
    [] kind \in {"Return", "FocusOut"} -> "entry_cmd"
    [] OTHER -> "none"

\* Scale(..., from_, to, variable): the Scale follows its variable, keeping
\* the value inside from_..to, and does not run its command for that.
ScaleFollows(ws, p) ==
  [ws EXCEPT !.var[p] = Max2(SliderFrom(p), Min2(SliderTo(p), ws.var[p]))]

RECURSIVE Dispatch(_, _, _)
\* Tk handles the widget events in q one after the other; a callback's own
\* widget operations add to q.
Dispatch(ws, q, fuel) ==
  IF q = <<>> \/ fuel = 0 THEN ws
  ELSE
    LET e == Head(q)
        cb == Binding(e.kind)
        ws1 == IF e.kind = "write" THEN ScaleFollows(ws, e.p) ELSE ws
        r == IF cb = "slider_cmd" THEN UpdateEntryFromSlider(ws1, e.p)
             ELSE IF cb = "entry_cmd" THEN ValidateAndUpdate(ws1, e.p)
             ELSE [ws |-> ws1, out |-> <<>>]
        ran == IF cb = "none" THEN 0 ELSE 1
    IN  Dispatch([r.ws EXCEPT !.runs = @ + ran], Tail(q) \o r.out, fuel - ran)

\* The controller takes the widget state ws.
WidgetsBecome(ws) ==
  /\ var' = ws.var
  /\ entry' = ws.entry
  /\ show' = ws.show
  /\ hsv_changed' = ws.hsv_changed
  /\ quiet' = ws.quiet
  /\ changes' = ws.changes
  /\ coalesced' = ws.coalesced

(***************************************************************************)
(* Initial state: what __init__ and the first update_frame of run() leave  *)
(***************************************************************************)
InitCommon ==
  /\ loaded_image = NoImage
  /\ hsv_changed = FALSE
  /\ show_binary = FALSE
  /\ cached_hsv_image = NoImage
  /\ last_processed_bounds = <<>>
  /\ cached_processed_images = <<>>
  /\ debounce_timer = NoTimer
  /\ timers = <<[id |-> 1, cb |-> "update_frame", left |-> UPDATE_INTERVAL]>>
  /\ var = [p \in Params |-> DefaultValue(p)]
  /\ entry = [p \in Params |-> Str(DefaultValue(p))]
  /\ show = [p \in Params |-> <<"0">>]
  /\ frameText = "Filtered Image"
  /\ toggleText = "Show Binary Mask"
  /\ vidLabel1 = NoImage
  /\ vidLabel2 = NoImage
  /\ clipboard = <<>>
  /\ dialog = <<>>
  /\ log = <<>>
  /\ events = 0
  /\ ev = NoEvent
  /\ last = NoRequest
  /\ quiet = QuietCap
  /\ changes = FALSE
  /\ coalesced = 0
  /\ build = Built

\* Bounds a user leaves the sliders at while tuning.
TunedLower == {0, 100} \X {0, 100} \X {0, 100}
TunedUpper == {12, 179} \X {34, 255} \X {56, 255}

\* A tuning session under way: within the first tick after launch the user
\* has loaded a picture (processed and shown with the default bounds) and
\* then dragged each of the six sliders, leaving them at lo and up.  events
\* starts one short of MaxEvents: one further input is followed.
InitTuned ==
  \E image \in Images, lo \in TunedLower, up \in TunedUpper :
    LET v == [p \in Params |-> IF p \in {"l_h", "l_s", "l_v"} THEN lo[Chan(p)] ELSE up[Chan(p)]]
        processed == Engine(image, DEFAULT_LOWER_HSV, DEFAULT_UPPER_HSV)
        shown == DisplayImagesSafely(processed, FALSE)
    IN  /\ loaded_image = image
        /\ hsv_changed = TRUE
        /\ show_binary = FALSE
        /\ cached_hsv_image = HSVImage(image)
        /\ last_processed_bounds = <<DEFAULT_LOWER_HSV, DEFAULT_UPPER_HSV>>
        /\ cached_processed_images = processed
        /\ debounce_timer = NoTimer
        /\ timers = <<[id |-> 1, cb |-> "update_frame", left |-> UPDATE_INTERVAL]>>
        /\ var = v
        /\ entry = [p \in Params |-> Str(v[p])]
        /\ show = [p \in Params |-> Str(v[p])]
        /\ frameText = "Filtered Image"
        /\ toggleText = "Show Binary Mask"
        /\ vidLabel1 = shown.p1
        /\ vidLabel2 = shown.p2
        /\ clipboard = <<>>
        /\ dialog = <<>>
        /\ log = <<>>
        /\ events = MaxEvents - 1
        /\ ev = [NoEvent EXCEPT !.kind = "slider", !.p = "u_v", !.runs = 1, !.marks = 1]
        /\ last = [outcome |-> "computed", image |-> image, lower |-> DEFAULT_LOWER_HSV,
                   upper |-> DEFAULT_UPPER_HSV, result |-> processed, byLoad |-> TRUE,
                   repeat |-> FALSE]
        /\ quiet = 0
        /\ filedialog_global = TRUE
        /\ changes = TRUE
        /\ coalesced = 0
        /\ build = Built

\* main.py imports filedialog inside load_image only (line 354).
Init == InitCommon /\ filedialog_global = FALSE

\* The same program with the name filedialog bound for _select_image_file.
InitDialog == InitCommon /\ filedialog_global = TRUE

(***************************************************************************)
(* Parameter inputs                                                        *)
(***************************************************************************)
Silent == /\ dialog' = <<>>
          /\ log' = <<>>

Controller ==
  << loaded_image, show_binary, cached_hsv_image, last_processed_bounds,
     cached_processed_images, vidLabel1, vidLabel2, last >>

Scheduling == << debounce_timer, timers >>

\* The user types a text into the entry of p.  No callback is bound to it.
TypeText(p, text) ==
  /\ events < MaxEvents
  /\ events' = events + 1
  /\ entry' = [entry EXCEPT ![p] = text]
  /\ ev' = [NoEvent EXCEPT !.kind = "type", !.p = p]
  /\ Silent
  /\ UNCHANGED << Controller, Scheduling, var, show, hsv_changed, quiet, frameText,
                  toggleText, clipboard, filedialog_global, build, changes, coalesced >>

\* The user drags the slider of p to position: the Scale writes its variable
\* and runs its command (lh_changed .. uv_changed).
SliderMoved(p, position) ==
  /\ events < MaxEvents
  /\ events' = events + 1
  /\ LET ws == Dispatch([Widgets EXCEPT !.var[p] = position],
                        <<[kind |-> "write", p |-> p], [kind |-> "command", p |-> p]>>,
                        MaxDispatch)
     IN  /\ WidgetsBecome(ws)
         /\ ev' = [NoEvent EXCEPT !.kind = "slider", !.p = p, !.runs = ws.runs,
                                  !.marks = ws.marks]
  /\ Silent
  /\ UNCHANGED << Controller, Scheduling, frameText, toggleText, clipboard,
                  filedialog_global, build >>

\* <Return> or <FocusOut> in the entry of p (lh_entry_changed .. uv_entry_changed).
EntryConfirm(p, key) ==
  /\ events < MaxEvents
  /\ events' = events + 1
  /\ LET ws == Dispatch(Widgets, <<[kind |-> key, p |-> p]>>, MaxDispatch)
     IN  /\ WidgetsBecome(ws)
         /\ ev' = [NoEvent EXCEPT !.kind = "confirm", !.p = p, !.runs = ws.runs,
                                  !.marks = ws.marks]
  /\ Silent
  /\ UNCHANGED << Controller, Scheduling, frameText, toggleText, clipboard,
                  filedialog_global, build >>

(***************************************************************************)
(* Load Image, the view toggle and the copy buttons                        *)
(***************************************************************************)
\* What the file dialog, the file system and cv2.imread answer to one load.
\* image is what the file holds (NoImage where there is no file or no picture
\* in it).
LoadAnswers ==
  {[kind |-> k, image |-> NoImage] :
      k \in {"cancelled", "missing", "not_a_file", "large_file_declined",
             "undecodable", "read_error"}}
  \cup {[kind |-> k, image |-> i] : k \in {"image", "large_image_declined"}, i \in Images}

\* _validate_file_path
ValidateFilePath(answer) ==
  answer.kind \notin {"missing", "not_a_file", "large_file_declined"}

\* A slip: the decoded image is returned though the user declined.
LoadImageFile_KeepsDeclined(answer) == answer.image

\* _load_image_file: the image, or None (NoImage) when imread gives None or
\* raises, or the user declines the large-image warning.
LoadImageFile(answer) == IF answer.kind = "image" THEN answer.image ELSE NoImage

\* The message boxes of _validate_file_path and _load_image_file.
LoadDialog(kind) ==
  CASE kind \in {"missing", "not_a_file", "undecodable", "read_error"} -> <<"Error">>
    [] kind \in {"large_file_declined", "large_image_declined"} -> <<"Warning">>
    [] OTHER -> <<>>

\* load_image; ev.file is the picture in the file the user means to open.
\* _select_image_file reads the global name filedialog: where
\* the module does not bind it the call raises NameError, which load_image's
\* handler reports through _handle_load_error.
LoadImage(answer, fault) ==
  /\ events < MaxEvents
  /\ events' = events + 1
  /\ IF ~filedialog_global
     THEN /\ dialog' = <<"Error">>
          /\ log' = <<"load">>
          /\ ev' = [NoEvent EXCEPT !.kind = "load", !.p = "NameError", !.file = answer.image]
          /\ UNCHANGED << Controller, hsv_changed >>
     ELSE IF \/ answer.kind = "cancelled"
             \/ ~ValidateFilePath(answer)
             \/ LoadImageFile(answer) = NoImage
     THEN /\ dialog' = LoadDialog(answer.kind)
          /\ log' = <<>>
          /\ ev' = [NoEvent EXCEPT !.kind = "load", !.p = answer.kind, !.file = answer.image]
          /\ UNCHANGED << Controller, hsv_changed >>
     ELSE LET s0 == [Proc EXCEPT !.img = LoadImageFile(answer), !.cache = InvalidateCache(@)]
              s1 == ProcessAndDisplayImage(s0, TRUE, fault)
          IN  /\ Becomes(s1)
              /\ hsv_changed' = TRUE
              /\ dialog' = LoadDialog(answer.kind)
              /\ log' = s1.printed
              /\ ev' = [NoEvent EXCEPT !.kind = "load", !.p = answer.kind, !.passes = 1,
                                       !.file = answer.image,
                                       !.hadEntry =
                                          /\ cached_processed_images # <<>>
                                          /\ last_processed_bounds = <<LowerOf(var), UpperOf(var)>>]
  /\ UNCHANGED << Scheduling, var, entry, show, quiet, frameText, toggleText, clipboard,
                  filedialog_global, build, changes, coalesced >>

\* toggle_result_view
ToggleResultView(fault) ==
  /\ events < MaxEvents
  /\ events' = events + 1
  /\ frameText' = IF ~show_binary THEN "Binary Mask" ELSE "Filtered Image"
  /\ toggleText' = IF ~show_binary THEN "Show Filtered Image" ELSE "Show Binary Mask"
  /\ hsv_changed' = TRUE
  /\ LET s1 == ProcessAndDisplayImage([Proc EXCEPT !.sb = ~show_binary], FALSE, fault)
     IN  /\ Becomes(s1)
         /\ log' = s1.printed
  /\ dialog' = <<>>
  /\ ev' = [NoEvent EXCEPT !.kind = "toggle", !.passes = 1]
  /\ UNCHANGED << Scheduling, var, entry, show, quiet, clipboard, filedialog_global, build,
                  changes, coalesced >>

\* '{},{},{}'.format(...) of three get_* strings.
RangeText(b) == Format0f(b[1]) \o <<",">> \o Format0f(b[2]) \o <<",">> \o Format0f(b[3])

\* get_lowerRange
GetLowerRange ==
  /\ events < MaxEvents
  /\ events' = events + 1
  /\ clipboard' = RangeText(LowerOf(var))
  /\ ev' = [NoEvent EXCEPT !.kind = "copy_lower"]
  /\ Silent
  /\ UNCHANGED << Controller, Scheduling, var, entry, show, hsv_changed, quiet, frameText,
                  toggleText, filedialog_global, build, changes, coalesced >>

\* get_upperRange
GetUpperRange ==
  /\ events < MaxEvents
  /\ events' = events + 1
  /\ clipboard' = RangeText(UpperOf(var))
  /\ ev' = [NoEvent EXCEPT !.kind = "copy_upper"]
  /\ Silent
  /\ UNCHANGED << Controller, Scheduling, var, entry, show, hsv_changed, quiet, frameText,
                  toggleText, filedialog_global, build, changes, coalesced >>

(***************************************************************************)
(* Timer callbacks                                                         *)
(***************************************************************************)
\* A slip: the pending debounced update is not cancelled before a new one
\* is scheduled.
UpdateFrame_NoCancel(q, held, changed) ==
  LET id == FreshId(q, NoTimer)
      q2 == IF changed THEN After(q, id, DEBOUNCE_DELAY, "_debounced_update") ELSE q
      held2 == IF changed THEN id ELSE held
  IN  [timers |-> After(q2, FreshId(q2, held2), UPDATE_INTERVAL, "update_frame"),
       debounce_timer |-> held2]

\* update_frame on the timer queue q: with the dirty flag set, a pending
\* debounced update is cancelled and a new one scheduled; the next tick is
\* scheduled in any case.
UpdateFrame(q, held, changed) ==
  LET q1 == IF changed /\ held # NoTimer THEN AfterCancel(q, held) ELSE q
      id == FreshId(q1, NoTimer)
      q2 == IF changed THEN After(q1, id, DEBOUNCE_DELAY, "_debounced_update") ELSE q1
      held2 == IF changed THEN id ELSE held
  IN  [timers |-> After(q2, FreshId(q2, held2), UPDATE_INTERVAL, "update_frame"),
       debounce_timer |-> held2]

\* _debounced_update: the processing pass of the coalescer.
DebouncedUpdate(fault) ==
  /\ IF hsv_changed
     THEN LET s1 == ProcessAndDisplayImage(Proc, FALSE, fault)
          IN  /\ Becomes(s1)
              /\ log' = s1.printed
              /\ ev' = [NoEvent EXCEPT !.kind = "_debounced_update", !.passes = 1]
              /\ coalesced' = Min2(2, coalesced + 1)
     ELSE /\ UNCHANGED Controller
          /\ log' = <<>>
          /\ ev' = [NoEvent EXCEPT !.kind = "_debounced_update"]
          /\ UNCHANGED coalesced
  /\ hsv_changed' = FALSE
  /\ debounce_timer' = NoTimer

\* The event loop runs the callback of the timer that is due first, once its
\* time has come.
FireTimer(fault) ==
  /\ timers # <<>>
  /\ LET t == Head(timers)
         q == Elapse(Tail(timers), t.left)
     IN  /\ quiet' = Later(quiet, t.left)
         /\ IF t.cb = "update_frame"
            THEN LET u == UpdateFrame(q, debounce_timer, hsv_changed)
                 IN  /\ timers' = u.timers
                     /\ debounce_timer' = u.debounce_timer
                     /\ ev' = [NoEvent EXCEPT !.kind = "update_frame"]
                     /\ log' = <<>>
                     /\ UNCHANGED << Controller, hsv_changed, coalesced >>
            ELSE /\ timers' = q
                 /\ DebouncedUpdate(fault)
  /\ dialog' = <<>>
  /\ UNCHANGED << var, entry, show, frameText, toggleText, clipboard, events,
                  filedialog_global, build, changes >>

Next ==
  \/ \E p \in Params, text \in EntryTexts : TypeText(p, text)
  \/ \E p \in Params : \E position \in SliderPositions(p) : SliderMoved(p, position)
  \/ \E p \in Params, key \in {"Return", "FocusOut"} : EntryConfirm(p, key)
  \/ \E answer \in LoadAnswers, fault \in Faults : LoadImage(answer, fault)
  \/ \E fault \in Faults : ToggleResultView(fault)
  \/ GetLowerRange
  \/ GetUpperRange
  \/ \E fault \in Faults : FireTimer(fault)

\* The program as written.
Spec == Init /\ [][Next]_vars

(***************************************************************************)
(* Construction: the steps of __init__ and run, in order                   *)
(***************************************************************************)
\* The calls of __init__ (lines 110-112, with _setup_ui and
\* _create_control_frames unfolded) and the call of run that follows it.
InitWritten ==
  << "_setup_window", "_create_main_frames", "_create_camera_frames", "_create_load_button",
     "_create_sliders", "_create_result_display", "_create_toggle_button",
     "_initialize_hsv_values", "run" >>

\* The same calls with _initialize_hsv_values moved before _setup_window.
InitValuesFirst ==
  << "_initialize_hsv_values", "_setup_window", "_create_main_frames",
     "_create_camera_frames", "_create_load_button", "_create_sliders",
     "_create_result_display", "_create_toggle_button", "run" >>

\* The attributes of self a step reads: _create_sliders passes self.l_h ..
\* self.u_v to _create_hsv_slider_row.  (The annotations of lines 102-107
\* create no attribute.)
Reads(step) == IF step = "_create_sliders" THEN Params ELSE {}

\* The state when the assignments of __init__ (lines 78-87) are done and
\* no step has run: no widget, no DoubleVar, no timer.
InitConstruct ==
  /\ build \in {[phase |-> "constructing", todo |-> t, attrs |-> {}] :
                   t \in {InitWritten, InitValuesFirst}}
  /\ loaded_image = NoImage
  /\ hsv_changed = FALSE
  /\ show_binary = FALSE
  /\ cached_hsv_image = NoImage
  /\ last_processed_bounds = <<>>
  /\ cached_processed_images = <<>>
  /\ debounce_timer = NoTimer
  /\ timers = <<>>
  /\ var = [p \in Params |-> 0]
  /\ entry = [p \in Params |-> <<>>]
  /\ show = [p \in Params |-> <<>>]
  /\ frameText = ""
  /\ toggleText = ""
  /\ vidLabel1 = NoImage
  /\ vidLabel2 = NoImage
  /\ clipboard = <<>>
  /\ dialog = <<>>
  /\ log = <<>>
  /\ events = 0
  /\ ev = NoEvent
  /\ last = NoRequest
  /\ quiet = QuietCap
  /\ filedialog_global = FALSE
  /\ changes = FALSE
  /\ coalesced = 0

\* The next step of construction runs.  A step that reads an attribute not
\* yet created raises AttributeError, which nothing catches: the program ends.
Construct ==
  /\ build.phase = "constructing"
  /\ LET step == Head(build.todo)
         rest == Tail(build.todo)
     IN  IF ~(Reads(step) \subseteq build.attrs)
         THEN /\ build' = [build EXCEPT !.phase = "AttributeError"]
              /\ UNCHANGED << Scheduling, var, entry, show, frameText, toggleText >>
         ELSE /\ build' = [phase |-> IF rest = <<>> THEN "running" ELSE "constructing",
                           todo |-> rest,
                           attrs |-> IF step = "_initialize_hsv_values" THEN Params
                                     ELSE build.attrs]
              /\ var' = IF step = "_initialize_hsv_values"
                        THEN [p \in Params |-> DefaultValue(p)] ELSE var
              /\ entry' = IF step = "_create_sliders"
                          THEN [p \in Params |-> Str(DefaultValue(p))] ELSE entry
              /\ show' = IF step = "_create_result_display"
                         THEN [p \in Params |-> <<"0">>] ELSE show
              /\ frameText' = IF step = "_create_camera_frames" THEN "Filtered Image"
                              ELSE frameText
              /\ toggleText' = IF step = "_create_toggle_button" THEN "Show Binary Mask"
                               ELSE toggleText
              /\ IF step = "run"
                 THEN LET u == UpdateFrame(timers, debounce_timer, hsv_changed)
                      IN  timers' = u.timers /\ debounce_timer' = u.debounce_timer
                 ELSE UNCHANGED Scheduling
  /\ UNCHANGED << Controller, hsv_changed, clipboard, dialog, log, events, ev, quiet,
                  filedialog_global, changes, coalesced >>

NextConstruct ==
  \/ Construct
  \/ build.phase = "running" /\ Next

\* The program as written and with _initialize_hsv_values called first,
\* from the first step of construction on.
SpecConstruct == InitConstruct /\ [][NextConstruct]_vars

\* The program with the file dialog reachable.
SpecDialog == InitDialog /\ [][Next]_vars

\* The program with the file dialog reachable, from a tuning session.
SpecTuned == InitTuned /\ [][Next]_vars

\* The program as written, with the event loop running every timer callback
\* that is due.
FairSpec == Spec /\ WF_vars(\E fault \in Faults : FireTimer(fault))

(***************************************************************************)
(* What the specification says of the parameters                           *)
(***************************************************************************)
\* The domain of a parameter: H in 0..179, S and V in 0..255.
Domain(p) == IF p \in {"l_h", "u_h"} THEN 0..179 ELSE 0..255

Clamped(p, value) ==
  IF value < 0 THEN 0
  ELSE IF p \in {"l_h", "u_h"} THEN Min2(179, value) ELSE Min2(255, value)

\* The step is the entry-confirm handler of some parameter.
ConfirmStep == events' = events + 1 /\ ev'.kind = "confirm"

\* The text submitted by the step is not a number, or a number outside the domain.
RejectedText(p) == ~ParseInt(entry[p]).ok \/ ParseInt(entry[p]).val \notin Domain(p)

(***************************************************************************)
(* Claims                                                                  *)
(***************************************************************************)

\* C1: with an image loaded, once a burst of parameter changes has ended
\* and the quiet period plus one tick interval have passed since its last
\* change, the coalescer has run exactly one processing pass for the burst.
C1_OnePassAfterQuiet ==
  (loaded_image # NoImage /\ changes /\ quiet >= DEBOUNCE_DELAY + UPDATE_INTERVAL)
    => coalesced = 1

\* C2: once a parameter change has set the dirty flag and the user's input
\* has stopped, a coalescer pass eventually runs and the dirty flag is
\* eventually cleared.
C2_EventuallyProcessed ==
  (changes /\ hsv_changed /\ events = MaxEvents) ~> (coalesced >= 1 /\ ~hsv_changed)

\* C3: a processing request for the image and the bounds of the request
\* before it, with no load in between, is answered from the cache: the
\* engine does not run again.
C3_SecondRequestHits == last.repeat => last.outcome = "hit"

C3_Witness == last.repeat /\ last.outcome = "hit"

\* C4: after a successful load the whole cache entry has been cleared before
\* the load's processing call: that call is never answered from the cache,
\* any cached HSV image is the new image's, and when the engine fails no
\* result and no bounds of the earlier image are left.
C4_LoadRecomputes ==
  (ev.kind = "load" /\ ev.p = "image")
    => /\ last.byLoad
       /\ last.image = loaded_image
       /\ last.outcome \in {"computed", "failed"}
       /\ cached_hsv_image \in {NoImage, HSVImage(loaded_image)}
       /\ last.outcome = "failed" => cached_processed_images = <<>> /\ last_processed_bounds = <<>>

C4_Witness == ev.kind = "load" /\ ev.p = "image" /\ ev.hadEntry /\ last.outcome = "computed"

\* C5: the cache entry is always the engine's result for the loaded image
\* and the stored bounds, and every answered request, hit or computed,
\* returned the engine's result for the loaded image and the requested bounds.
C5_CacheCoherent ==
  /\ cached_processed_images # <<>>
       => /\ last_processed_bounds # <<>>
          /\ cached_processed_images =
               Engine(loaded_image, last_processed_bounds[1], last_processed_bounds[2])
  /\ cached_hsv_image # NoImage => cached_hsv_image = HSVImage(loaded_image)
  /\ last.outcome \in {"hit", "computed"}
       => /\ last.image = loaded_image
          /\ last.result = Engine(loaded_image, last.lower, last.upper)

C5_Witness ==
  /\ last.outcome = "hit"
  /\ show_binary
  /\ last.result = cached_processed_images

\* C6: an entry-confirm step whose text is not a number, or a number
\* outside the parameter's domain, changes no parameter value, no label and
\* not the dirty flag, and raises no dialog.
C6_RejectionChangesNothing ==
  [][(ConfirmStep /\ RejectedText(ev'.p))
       => /\ var' = var
          /\ show' = show
          /\ entry' = entry
          /\ hsv_changed' = hsv_changed
          /\ dialog' = <<>>]_vars

C6_Witness ==
  /\ ev.kind = "confirm"
  /\ ev.runs = 1
  /\ ParseInt(entry[ev.p]).ok
  /\ ParseInt(entry[ev.p]).val \notin Domain(ev.p)

\* C7 as stated: after an entry-confirm of a text that parses as an integer,
\* the parameter holds that integer clamped to its domain.
C7_Clamps ==
  (ev.kind = "confirm" /\ ParseInt(entry[ev.p]).ok)
    => var[ev.p] = Clamped(ev.p, ParseInt(entry[ev.p]).val)

\* C7 amended: an entry-confirm of a text that parses as an integer stores
\* the integer when it lies in the domain and otherwise keeps the stored
\* value; nothing is clamped.
C7_StoresOrKeeps ==
  [][(ConfirmStep /\ ParseInt(entry[ev'.p]).ok)
       => var'[ev'.p] = IF ParseInt(entry[ev'.p]).val \in Domain(ev'.p)
                        THEN ParseInt(entry[ev'.p]).val
                        ELSE var[ev'.p]]_vars

C7_Witness ==
  /\ ev.kind = "confirm"
  /\ ParseInt(entry[ev.p]).ok
  /\ ParseInt(entry[ev.p]).val \notin Domain(ev.p)
  /\ var[ev.p] # Clamped(ev.p, ParseInt(entry[ev.p]).val)

\* C8: after a parameter has been set through the slider or through the
\* entry, get returns the value, the entry text and the label are its
\* decimal and the dirty flag is set.
C8_PathsConverge ==
  (ev.kind \in {"slider", "confirm"} /\ ev.marks > 0)
    => /\ var[ev.p] \in Domain(ev.p)
       /\ Format0f(var[ev.p]) = Str(var[ev.p])
       /\ entry[ev.p] = Str(var[ev.p])
       /\ show[ev.p] = Str(var[ev.p])
       /\ hsv_changed

\* C9: a slider event or an entry-confirm event runs one change handler,
\* which marks dirty at most once (the slider handler once); the handler's
\* own writes set off no further handler.
C9_OneHandlerPerEvent ==
  /\ ev.kind = "slider" => ev.runs = 1 /\ ev.marks = 1
  /\ ev.kind = "confirm" => ev.runs = 1 /\ ev.marks <= 1

C9_Witness == ev.kind = "confirm" /\ ev.marks = 1 /\ var[ev.p] # DefaultValue(ev.p)

\* C10: every stored parameter value lies in its domain.
C10_InDomain == \A p \in Params : var[p] \in Domain(p)

C10_Witness ==
  /\ loaded_image # NoImage
  /\ \E p \in Params : var[p] # DefaultValue(p)

(***************************************************************************)
(* What the specification says of the Threshold Engine                     *)
(***************************************************************************)
\* A pixel's H, S and V each lie in [lower, upper] of their channel.
Within(pixel, lower, upper) ==
  \A c \in 1..3 : lower[c] <= BGR2HSV(pixel)[c] /\ BGR2HSV(pixel)[c] <= upper[c]

\* C11: the cached result's filtered image has the source's width and
\* height, equals the source at every pixel whose H, S and V lie in the
\* inclusive range of the stored bounds and is zero at every other pixel;
\* on the 2x2 chart [red, green; blue, white] with bounds isolating red,
\* the red pixel alone is kept.
C11_MaskAndFilter ==
  cached_processed_images # <<>> =>
    LET image == cached_processed_images[1]
        filtered == cached_processed_images[2]
        lower == last_processed_bounds[1]
        upper == last_processed_bounds[2]
    IN  /\ image = loaded_image
        /\ filtered.h = image.h
        /\ filtered.w = image.w
        /\ Len(filtered.px) = Len(image.px)
        /\ \A i \in 1..Len(image.px) :
              filtered.px[i] = IF Within(image.px[i], lower, upper) THEN image.px[i]
                               ELSE <<0, 0, 0>>
        /\ (image = ImageA /\ lower = <<0, 100, 100>> /\ upper = <<12, 255, 255>>)
              => filtered.px = <<Red, Black, Black, Black>>

C11_Witness ==
  /\ ev.kind = "toggle"
  /\ loaded_image = ImageA
  /\ last_processed_bounds = << <<0, 100, 100>>, <<12, 255, 255>> >>
  /\ cached_processed_images # <<>>
  /\ cached_processed_images[2].px = <<Red, Black, Black, Black>>

\* Some channel's lower bound lies above its upper bound.
Inverted(lower, upper) == \E c \in 1..3 : lower[c] > upper[c]

\* C12: a processing pass on a loaded image with some lower bound above its
\* upper bound still sends the request to the engine, raises no dialog and
\* prints the warning; the result, when the engine answers, has an all-zero
\* filtered image and an all-zero binary image.
C12_InvertedBoundsEmptyMask ==
  (ev.passes = 1 /\ loaded_image # NoImage /\ Inverted(LowerOf(var), UpperOf(var)))
    => /\ last.lower = LowerOf(var)
       /\ last.upper = UpperOf(var)
       /\ dialog = <<>>
       /\ \E i \in 1..Len(log) : log[i] = "lower>upper"
       /\ last.outcome \in {"hit", "computed"}
            => /\ \A i \in 1..Len(last.result[2].px) : last.result[2].px[i] = <<0, 0, 0>>
               /\ \A i \in 1..Len(last.result[3].px) : last.result[3].px[i] = 0
               /\ Len(last.result[2].px) = Len(loaded_image.px)
               /\ Len(last.result[3].px) = Len(loaded_image.px)

C12_Witness ==
  /\ ev.passes = 1
  /\ loaded_image = ImageA
  /\ Inverted(LowerOf(var), UpperOf(var))
  /\ last.outcome = "computed"
  /\ last.result[3].px = <<0, 0, 0, 0>>

\* C13: every pixel of the cached binary image is 0 or 255: 0 where the
\* gray conversion of the filtered pixel is 0, 255 where it is above 0.
C13_BinaryTwoValued ==
  cached_processed_images # <<>> =>
    LET filtered == cached_processed_images[2]
        binary == cached_processed_images[3]
    IN  /\ Len(binary.px) = Len(filtered.px)
        /\ \A i \in 1..Len(binary.px) :
              /\ binary.px[i] \in {0, 255}
              /\ BGR2GRAY(filtered.px[i]) = 0 => binary.px[i] = 0
              /\ BGR2GRAY(filtered.px[i]) > 0 => binary.px[i] = 255

C13_Witness ==
  /\ ev.kind = "toggle"
  /\ cached_processed_images # <<>>
  /\ \E i, j \in 1..Len(cached_processed_images[3].px) :
        /\ cached_processed_images[3].px[i] = 0
        /\ cached_processed_images[3].px[j] = 255

(***************************************************************************)
(* What the specification says of loading, toggling and copying            *)
(***************************************************************************)
\* The step is a user's Load Image.
LoadStep == events' = events + 1 /\ ev'.kind = "load"

\* C14: a load attempt that does not end with an image loaded leaves the
\* loaded image, the cache entry, the dirty flag, the view state and both
\* panes as they were.
C14_FailedLoadChangesNothing ==
  [][(LoadStep /\ ev'.p # "image")
       => /\ loaded_image' = loaded_image
          /\ cached_hsv_image' = cached_hsv_image
          /\ last_processed_bounds' = last_processed_bounds
          /\ cached_processed_images' = cached_processed_images
          /\ hsv_changed' = hsv_changed
          /\ show_binary' = show_binary
          /\ vidLabel1' = vidLabel1
          /\ vidLabel2' = vidLabel2]_vars

C14_Witness ==
  /\ ev.kind = "load"
  /\ ev.p = "large_image_declined"
  /\ loaded_image # NoImage
  /\ ev.file # loaded_image
  /\ vidLabel1 = DisplayImageInLabel(loaded_image, TRUE)

\* C15: after a Load Image for which the user's file holds a decodable
\* picture (no warning declined), that picture is the loaded image, the
\* dirty flag is set and a processing pass on it with the current bounds has
\* run inside the load, its result shown when the engine answered.
C15_LoadSucceeds ==
  (ev.kind = "load" /\ ev.file # NoImage /\ ev.p # "large_image_declined")
    => /\ loaded_image = ev.file
       /\ hsv_changed
       /\ ev.passes = 1
       /\ last.byLoad
       /\ last.image = ev.file
       /\ last.lower = LowerOf(var)
       /\ last.upper = UpperOf(var)
       /\ last.outcome = "computed" => vidLabel1 = DisplayImageInLabel(ev.file, TRUE)

\* C16: a slider event or an accepted entry leaves the loaded image, the
\* cache entry, the view state, both panes, and the value and views of the
\* other five parameters as they were, runs no processing pass and sets the
\* dirty flag.
C16_ParameterChangeFrame ==
  [][(events' = events + 1 /\ ev'.kind \in {"slider", "confirm"} /\ ev'.marks > 0)
       => /\ loaded_image' = loaded_image
          /\ cached_hsv_image' = cached_hsv_image
          /\ last_processed_bounds' = last_processed_bounds
          /\ cached_processed_images' = cached_processed_images
          /\ show_binary' = show_binary
          /\ vidLabel1' = vidLabel1
          /\ vidLabel2' = vidLabel2
          /\ last' = last
          /\ ev'.passes = 0
          /\ hsv_changed'
          /\ \A q \in Params \ {ev'.p} :
                var'[q] = var[q] /\ entry'[q] = entry[q] /\ show'[q] = show[q]]_vars

C16_Witness ==
  /\ ev.kind = "slider"
  /\ ev.marks > 0
  /\ loaded_image # NoImage
  /\ cached_processed_images # <<>>
  /\ var[ev.p] # DefaultValue(ev.p)
  /\ last_processed_bounds # <<LowerOf(var), UpperOf(var)>>

\* C17: a toggle with an image loaded and a cache entry for the current
\* bounds flips show_binary, sets the dirty flag, is answered from the cache
\* (the engine does not run, the entry stays) and shows the binary image in
\* the right pane iff show_binary is then true, the filtered image otherwise.
C17_ToggleFromCache ==
  [][(/\ events' = events + 1
      /\ ev'.kind = "toggle"
      /\ loaded_image # NoImage
      /\ cached_processed_images # <<>>
      /\ last_processed_bounds = <<LowerOf(var), UpperOf(var)>>)
       => /\ show_binary' = ~show_binary
          /\ hsv_changed'
          /\ last'.outcome = "hit"
          /\ cached_hsv_image' = cached_hsv_image
          /\ last_processed_bounds' = last_processed_bounds
          /\ cached_processed_images' = cached_processed_images
          /\ vidLabel1' = DisplayImageInLabel(cached_processed_images[1], TRUE)
          /\ vidLabel2' = IF show_binary'
                          THEN DisplayImageInLabel(cached_processed_images[3], FALSE)
                          ELSE DisplayImageInLabel(cached_processed_images[2], TRUE)]_vars

C17_Witness ==
  /\ ev.kind = "toggle"
  /\ show_binary
  /\ last.outcome = "hit"
  /\ vidLabel2 = DisplayImageInLabel(cached_processed_images[3], FALSE)
  /\ vidLabel2 # DisplayImageInLabel(cached_processed_images[2], TRUE)

\* C18: while no image is loaded both panes are empty, no request has
\* reached the engine and there is no cache entry.
C18_NoImageNoPanes ==
  loaded_image = NoImage
    => /\ vidLabel1 = NoImage
       /\ vidLabel2 = NoImage
       /\ last.outcome = "none"
       /\ cached_hsv_image = NoImage
       /\ last_processed_bounds = <<>>
       /\ cached_processed_images = <<>>

C18_Witness ==
  /\ loaded_image = NoImage
  /\ ev.kind = "toggle"
  /\ ev.passes = 1
  /\ show_binary
  /\ vidLabel2 = NoImage

\* C19: a copy step puts "<h>,<s>,<v>" of the lower (resp. upper) bound on
\* the clipboard, each number in decimal with no padding and no fraction
\* (upper bound (12,34,56) gives "12,34,56"), and leaves the parameters,
\* the dirty flag, the cache and the view state as they were.
C19_CopyExact ==
  [][(events' = events + 1 /\ ev'.kind \in {"copy_lower", "copy_upper"})
       => LET b == IF ev'.kind = "copy_lower" THEN LowerOf(var) ELSE UpperOf(var)
          IN  /\ clipboard' = Str(b[1]) \o <<",">> \o Str(b[2]) \o <<",">> \o Str(b[3])
              /\ b = <<12, 34, 56>>
                   => clipboard' = <<"1", "2", ",", "3", "4", ",", "5", "6">>
              /\ var' = var
              /\ hsv_changed' = hsv_changed
              /\ cached_hsv_image' = cached_hsv_image
              /\ last_processed_bounds' = last_processed_bounds
              /\ cached_processed_images' = cached_processed_images
              /\ show_binary' = show_binary]_vars

C19_Witness ==
  /\ ev.kind = "copy_upper"
  /\ UpperOf(var) = <<12, 34, 56>>
  /\ clipboard = <<"1", "2", ",", "3", "4", ",", "5", "6">>

\* C20: a processing pass in which the engine fails leaves both panes and
\* the cached result entry as they were when the pass began (a load has
\* cleared the entry before its pass), and the periodic tick stays scheduled.
C20_FailureKeepsFrame ==
  [][(events' = events + 1 /\ ev'.passes = 1 /\ last'.outcome = "failed")
       => /\ vidLabel1' = vidLabel1
          /\ vidLabel2' = vidLabel2
          /\ cached_processed_images' =
                IF ev'.kind = "load" THEN <<>> ELSE cached_processed_images
          /\ last_processed_bounds' =
                IF ev'.kind = "load" THEN <<>> ELSE last_processed_bounds
          /\ \E i \in 1..Len(timers') : timers'[i].cb = "update_frame"]_vars

C20_Witness ==
  /\ ev.kind = "toggle"
  /\ last.outcome = "failed"
  /\ cached_processed_images # <<>>
  /\ vidLabel1 = DisplayImageInLabel(loaded_image, TRUE)

(***************************************************************************)
(* What the specification says of failures, the delayed action and the     *)
(* views                                                                   *)
(***************************************************************************)
\* C21: after a processing pass in which the engine failed, the pass has
\* printed a line and raised the processing-error message box.
C21_FailureNotified ==
  (ev.passes = 1 /\ last.outcome = "failed")
    => /\ log # <<>>
       /\ \E i \in 1..Len(dialog) : dialog[i] = "Processing Error"

\* Positions in the timer queue of the pending debounced updates.
PendingDebounced == {i \in 1..Len(timers) : timers[i].cb = "_debounced_update"}

\* C22: at most one debounced update is pending, and _debounce_timer holds
\* an id exactly when one is pending, the id of that one; so the
\* after_cancel of update_frame is always given a pending timer.
C22_OnePendingDebounce ==
  /\ Cardinality(PendingDebounced) <= 1
  /\ debounce_timer = NoTimer <=> PendingDebounced = {}
  /\ \A i \in PendingDebounced : timers[i].id = debounce_timer
  /\ \A i, j \in 1..Len(timers) : timers[i].id = timers[j].id => i = j

C22_Witness ==
  /\ ev.kind = "update_frame"
  /\ changes
  /\ quiet >= 2 * UPDATE_INTERVAL
  /\ debounce_timer # NoTimer
  /\ Cardinality(PendingDebounced) = 1

\* C23: a tick that follows another tick, with a debounced update pending
\* and therefore no change between its arming and this tick, leaves that
\* update pending with its due time untouched.
C23_TickLeavesPending ==
  [][(/\ ev.kind = "update_frame"
      /\ ev'.kind = "update_frame"
      /\ timers # <<>>
      /\ PendingDebounced # {})
       => \E i \in PendingDebounced : \E j \in 1..Len(timers') :
            /\ timers'[j].cb = "_debounced_update"
            /\ timers'[j].left = timers[i].left - Head(timers).left]_vars

\* C24: for each parameter the label text and the entry text are the
\* decimal of the stored value.
C24_ViewsInSync ==
  \A p \in Params : show[p] = Str(var[p]) /\ entry[p] = Str(var[p])

\* C27: every pixel of the cached binary image is 255 where the pixel is
\* in the HSV range mask of the stored bounds and 0 where it is not.
C27_BinaryIsMask ==
  cached_processed_images # <<>> =>
    \A i \in 1..Len(cached_processed_images[1].px) :
      cached_processed_images[3].px[i] =
        IF Within(cached_processed_images[1].px[i], last_processed_bounds[1],
                  last_processed_bounds[2])
        THEN 255 ELSE 0

\* C26: construction never reads a parameter variable before it is created,
\* and when it is over the controller has no image, dirty and show_binary
\* false, an empty cache and the default bounds.
C26_ConstructionCompletes ==
  /\ build.phase # "AttributeError"
  /\ (build.phase = "running" /\ events = 0)
       => /\ loaded_image = NoImage
          /\ ~hsv_changed
          /\ ~show_binary
          /\ cached_hsv_image = NoImage
          /\ last_processed_bounds = <<>>
          /\ cached_processed_images = <<>>
          /\ LowerOf(var) = <<0, 0, 0>>
          /\ UpperOf(var) = <<179, 255, 255>>

====
